---- MODULE Spec2Model ----
(***************************************************************************)
(* lemon_markets: the WebSocket subscription manager and the entity        *)
(* classes of src/lemon_markets/__init__.py.                               *)
(*                                                                         *)
(* The caller's process holds the WebSocket object (subscribed,            *)
(* _ws_process) and the Instrument objects.  Every Process started by      *)
(* subscribe runs _ws_worker on a COPY of the WebSocket object taken when  *)
(* the process is started (multiprocessing.Process): its own subscribed    *)
(* list and its own _last_message_time.                                    *)
(*                                                                         *)
(* worker is the Process self._ws_process refers to.  A Process the object *)
(* no longer refers to is only counted: dying when terminate() was called  *)
(* on it, leaked when it was not.                                          *)
(*                                                                         *)
(* Spec        debug at its default, False                                 *)
(* SpecDebug   debug set either way and changed at any time                *)
(* SpecObs     Spec, with what the user's callback sees recorded in obs    *)
(* SpecSeq     Spec, with the received messages numbered in trace          *)
(* SpecDel     Spec, with del ws                                           *)
(* SpecThreads subscribe called from several threads, line by line         *)
(*                                                                         *)
(* The entity classes, one object each, attribute access by attribute      *)
(* access: SpecInstrument, SpecAccount, SpecOrder, SpecTransaction, and    *)
(* SpecEntity for one object of any of the four classes.                   *)
(*                                                                         *)
(* The paginated list operations, a call with all its requests, against a  *)
(* provider that holds a fixed number of items: SpecPages.  The operations *)
(* keep nothing between two calls, so a behaviour is one call.             *)
(***************************************************************************)
EXTENDS Integers, Sequences, FiniteSets, TLC

\* ------------------------------------------------------------------ bounds
NumObjs == 3      \* Instrument objects the application holds
MaxOrphans == 1   \* earlier worker processes that may still be running
MaxFreq == 1      \* largest frequency_limit tried
MaxTicks == 1     \* clock readings after the first one
MaxMsgs == 3      \* messages received in one run (SpecSeq)
NumThreads == 2   \* threads of the application calling subscribe (SpecThreads)
MaxFetches == 3   \* requests issued by one entity object (SpecInstrument)
MaxVersions == 2  \* states of an account or order on the server over one run
MaxLimit == 2500  \* largest limit passed to a paginated operation (SpecPages)
MaxOffset == 1    \* largest offset passed to a paginated operation
MaxFailAt == 2    \* last page request that may be answered with a failure
MaxStatus == 599  \* largest HTTP status a response carries (SpecRequest)

\* ---------------------------------------------------------------- constants
None == 0                 \* Python's None, as an argument
LastMessageTimeInit == 0  \* self._last_message_time = 0
PageSize == 1000          \* items per page of list_instruments, get_m1_candlesticks
PortfolioPageSize == 200  \* items per page of Portfolio.get_seperated

Objs == 1 .. NumObjs
Freqs == 0 .. MaxFreq
\* time() at the start of a run: the epoch clock is far beyond any limit
ClockStart == MaxFreq + 1
ClockEnd == ClockStart + MaxTicks

\* The ISIN an Instrument object was constructed with: objects 1 and 2 are two
\* Instrument values of the same ISIN, object 3 has another one, ...
IsinOf(o) == (o + 1) \div 2

VARIABLES
    debug,        \* the module's global debug flag
    freq,         \* self._frequency_limit
    subscribed,   \* self.subscribed, a list of Instrument objects
    cache,        \* per Instrument object: wkn/title/type/symbol are in __dict__
    worker,       \* self._ws_process: the Process and the state of its copy of self
    dying,        \* earlier Processes, SIGTERM pending, that have not exited yet
    leaked,       \* earlier Processes still running that nothing will terminate
    now,          \* the reading of time()
    ret,          \* how the caller's latest subscribe/unsubscribe call ended
    trace,        \* the messages received and the callback entries made (written under SpecSeq only)
    thr,          \* per caller thread: where it is in subscribe and with which argument (SpecThreads)
    inst,         \* the application's Instrument object: its __dict__ and how the latest access ended (SpecInstrument)
    acct,         \* the application's Account object: its __dict__ and how the latest access ended (SpecAccount)
    order,        \* the application's Order object: its __dict__ and how the latest access ended (SpecOrder)
    txn,          \* the application's Transaction object: its __dict__ and how the latest access ended (SpecTransaction)
    pg,           \* the paginated call in progress or last made
    obs           \* what the user's callback has seen (written under SpecObs only)

vars == <<debug, freq, subscribed, cache, worker, dying, leaked, now, ret, obs, trace, thr, inst, acct, order, txn, pg>>

\* ------------------------------------------------------------ list helpers
\* Instrument defines no __eq__: == on two Instruments is object identity
InstrumentEq(a, b) == a = b

\* instrument in self.subscribed
ContainsNever(list, x) == FALSE
Contains(list, x) == \E k \in 1 .. Len(list) : InstrumentEq(list[k], x)

\* self.subscribed.remove(instrument), its ValueError swallowed
RECURSIVE Remove(_, _)
Remove(list, x) ==
    IF list = <<>> THEN <<>>
    ELSE IF InstrumentEq(Head(list), x) THEN Tail(list)
    ELSE <<Head(list)>> \o Remove(Tail(list), x)

Isins(list) == {IsinOf(list[k]) : k \in 1 .. Len(list)}

\* ------------------------------------------------------------ worker state
\* status "none": the attribute _ws_process is not set.
\* snap: the worker's copy of self.subscribed; sent: the directives sent on the
\* open connection; last: the worker's copy of self._last_message_time.
\* pc "connect" is the first pass of the outer while True, "reconnect" every
\* later one.
NoWorker ==
    [status |-> "none", pc |-> "exit", snap |-> <<>>, sent |-> <<>>, last |-> 0]

DeadWorker == [NoWorker EXCEPT !.status = "dead"]

\* Process(target=self._ws_worker).start(): the child works on a copy of self
NewWorker(reg) ==
    [NoWorker EXCEPT !.status = "alive", !.pc = "connect", !.snap = reg,
                     !.last = LastMessageTimeInit]

\* Process.is_alive()
IsAlive == worker.status \in {"alive", "terminating"}

\* if(time() - self._last_message_time > self._frequency_limit)
ThrottlePass(t, last, f) == t - last > f

\* fate: what became of the latest received message; inv: the clock reading when
\* the callback was last entered; prev: the same for the entry before that one
NoObs == [fate |-> "none", inv |-> 0, prev |-> 0]

\* n: the messages received so far, numbered 1 .. n in the order of ws.recv();
\* log: the numbers of the messages self.callback was entered for, in the order
\* of the entries
NoTrace == [n |-> 0, log |-> <<>>]

\* one step of the receive loop seen from outside: a message was received or
\* not, self.callback was entered (for the latest message) or not
Observe(t, received, entered) ==
    LET n == IF received THEN t.n + 1 ELSE t.n
    IN  [n |-> n, log |-> IF entered THEN Append(t.log, n) ELSE t.log]

\* A thread of the application that calls subscribe once; pc is the line of
\* subscribe it executes next: "check" 109, "append" 111, "len" 116,
\* "start" 117-118
Threads == 1 .. NumThreads
NoThreads == [t \in Threads |-> [pc |-> "idle", arg |-> None]]

\* ------------------------------------------------------ Instrument objects
\* The ISINs the application uses
AllIsins == {IsinOf(o) : o \in Objs}

\* wkn, title, type, symbol: the attributes Instrument.__getattr__ recognizes
Fields == {"wkn", "title", "type", "symbol"}

\* The value of a descriptive attribute: by "ctor", passed to __init__ for the
\* instrument isin; by "fetch", taken from the response to GET
\* .../instruments/{isin}/; by "attr", the attribute isin itself.
\* Absent: the key is not in __dict__.
Absent == [by |-> "absent", isin |-> None]
FromCtor(j) == [by |-> "ctor", isin |-> j]
FromFetch(j) == [by |-> "fetch", isin |-> j]

\* Instrument.__init__(isin, ...) with the descriptive arguments of the set
\* given: the four are stored only when none of them is None
InstrumentInit(j, given) ==
    [f \in Fields |-> IF given = Fields THEN FromCtor(j) ELSE Absent]

\* lines 707-710: the four keys are set from the response for ISIN j
GetattrStoreTitleOnly(d, j) == [d EXCEPT !["title"] = FromFetch(j)]
GetattrStore(d, j) == [f \in Fields |-> FromFetch(j)]

\* lines 718: self.__dict__.clear()
SetattrKeep(d) == d
SetattrClear(d) == [f \in Fields |-> Absent]

\* how the latest access to the object ended: the value returned, the number
\* of requests it issued, the ISIN in the URL of the request
Access(op, field, val, fetched, url, how) ==
    [op |-> op, field |-> field, val |-> val, fetched |-> fetched, url |-> url, how |-> how]

\* isin None: the application has not constructed the Instrument yet.
\* desc: the descriptive keys of __dict__; n: the requests the object has
\* issued; was: what title was when isin was last assigned
NoInstrument ==
    [isin |-> None, desc |-> [f \in Fields |-> Absent], n |-> 0, was |-> Absent,
     last |-> Access("none", "none", Absent, 0, None, "none")]

\* --------------------------------------------------------- Account objects
\* The account UUIDs the application uses, and the successive states of an
\* account on the server
Uuids == 1 .. 2
Versions == 1 .. MaxVersions

\* name, type, currency: the attributes Account.__getattr__ recognizes
AccountFields == {"name", "type", "currency"}

\* The value of an attribute of an Account: by "fetch", taken from the response
\* to GET .../accounts/{uuid}/ when the server was in state ver; by "attr",
\* uuid or token as passed to __init__
AccountAbsent == [by |-> "absent", uuid |-> None, ver |-> None]
AccountFetched(u, v) == [by |-> "fetch", uuid |-> u, ver |-> v]

\* lines 182-184 and 213-215: the three keys are set from the response
AccountStore(u, v) == [f \in AccountFields |-> AccountFetched(u, v)]

\* uuid None: the application has not constructed an Account yet.
\* n: the requests issued for accounts so far
NoAccount ==
    [uuid |-> None, desc |-> [f \in AccountFields |-> AccountAbsent], n |-> 0,
     last |-> Access("none", "none", AccountAbsent, 0, None, "none")]

\* ----------------------------------------------------------- Order objects
\* The order ids the application uses and the types an order can have
OrderIds == 1 .. 2
OrderTypes == {"market", "stop_market", "limit", "stop_limit"}

\* the attributes Order.__getattr__ recognizes, and the keys it stores
OrderFields ==
    {"quantity", "limit_price", "stop_price", "type", "side", "instrument", "created_at",
     "processed_at", "processed_quantity", "avg_price", "valid_until"}
OrderKeys == OrderFields \cup {"status"}

\* 'limit' in type, 'stop' in type: substring tests on the type's name
HasLimit(t) == t \in {"limit", "stop_limit"}
HasStop(t) == t \in {"stop_market", "stop_limit"}

\* The value under a key of an Order's __dict__: Missing, the key is not
\* there; PyNone, it holds None; Passed(k), the argument k of __init__;
\* Resp(v, k), orderinfo[k] of the response when the server was in state v
Missing == [kind |-> "missing", ver |-> None, of |-> "none"]
PyNone == [kind |-> "None", ver |-> None, of |-> "none"]
Passed(k) == [kind |-> "passed", ver |-> None, of |-> k]
Resp(v, k) == [kind |-> "response", ver |-> v, of |-> k]

\* Order.__init__(id, account, ...): the eleven keys are stored only when none
\* of the nine arguments other than the two prices is None (line 895);
\* given: the arguments passed, "core" standing for those nine
OrderInit(given) ==
    [k \in OrderKeys |->
        IF "core" \notin given \/ k = "status" THEN Missing
        ELSE IF k \in {"limit_price", "stop_price"} /\ k \notin given THEN PyNone
        ELSE Passed(k)]

\* the key of the response a key of __dict__ is set from (lines 921-935)
ResponseKey(k) == IF k = "avg_price" THEN "average_price" ELSE k

\* lines 921-935 for a response of state v for an order of type t.
\* Line 923 sets __dict__['limit_price'] and orderinfo['stop_price'] to None:
\* the stop price of the response is lost and __dict__['stop_price'] is set
\* only by line 927, for a type with 'stop' and without 'limit' in its name.
OrderStore(d, t, v) ==
    [k \in OrderKeys |->
        IF k = "limit_price" THEN (IF HasLimit(t) THEN Resp(v, "limit_price") ELSE PyNone)
        ELSE IF k = "stop_price" THEN (IF ~HasLimit(t) /\ HasStop(t) THEN PyNone ELSE d[k])
        ELSE Resp(v, ResponseKey(k))]

\* id None: the application has not constructed an Order yet.  t: the type
\* of the order on the server; n: the requests the object has issued
NoOrder ==
    [id |-> None, t |-> "market", d |-> [k \in OrderKeys |-> Missing], n |-> 0,
     last |-> Access("none", "none", Missing, 0, None, "none")]

\* ----------------------------------------------------- Transaction objects
\* The transaction ids the application uses
TransactionIds == 1 .. 2

\* the attributes Transaction.__getattr__ recognizes (line 784), and the keys
\* __init__ and __getattr__ store (lines 775-779, 790-794)
TransactionFields == {"name", "amount", "order_volume", "order_isin", "time"}
TransactionKeys == {"name", "amount", "order_volume", "instrument", "time"}

\* the keys of an Account's __dict__ after __init__ (lines 176-184); any other
\* name goes to Account.__getattr__, which raises AttributeError for it
AccountDict == {"uuid", "token", "_auth_header"} \cup AccountFields

\* Transaction.__init__(id, account, ...): the five keys are stored only when
\* none of the five arguments is None (line 774)
TransactionInit(given) ==
    [k \in TransactionKeys |-> IF given THEN Passed(k) ELSE Missing]

\* lines 790-794 for a response of state v
TransactionStore(v) == [k \in TransactionKeys |-> Resp(v, k)]

\* id None: the application has not constructed a Transaction yet.
\* acc: the uuid of the owning Account; n: the requests the object has issued
NoTransaction ==
    [id |-> None, acc |-> None, d |-> [k \in TransactionKeys |-> Missing], n |-> 0,
     last |-> Access("none", "none", Missing, 0, None, "none")]

\* lemon_markets.debug is False when the module is imported
\* ------------------------------------------------- paginated operations
Min(a, b) == IF a < b THEN a ELSE b

\* the page sizes: while limit > 0, a full page or what is left
RECURSIVE Partition(_, _)
Partition(limit, P) ==
    IF limit > 0
    THEN IF limit >= P THEN <<P>> \o Partition(limit - P, P) ELSE <<limit>>
    ELSE <<>>

\* page_offset of the i-th iteration of enumerate(page_list), i from 0
PageOffsetSame(i, offset) == offset
PageOffset(i, offset) == i * PageSize + offset

\* The provider holds total items, numbered 1 .. total in the order it lists
\* them.  A page of size items from off on is items lo + 1 .. hi.
Results(total, size, off) == [lo |-> Min(off, total), hi |-> Min(off + size, total)]

\* 'next' of the response after json.loads: JSON null is None, anything else
\* the URL of the next page
NextLink(total, size, off) == IF off + size >= total THEN "None" ELSE "url"

\* r['next'] == 'null': a comparison with the string 'null'
IsNullString(next) == next = "null"

\* the number of items in a list of pages
RECURSIVE Items(_)
Items(got) == IF got = <<>> THEN 0 ELSE (Head(got).hi - Head(got).lo) + Items(Tail(got))

\* the request loop from iteration i on; failAt is the request the provider
\* answers with a status outside 2xx (0 for none)
RECURSIVE RequestLoop(_, _, _, _, _, _)
RequestLoop(pages, i, offset, total, failAt, acc) ==
    IF i > Len(pages) THEN acc
    ELSE LET page_offset == PageOffset(i - 1, offset)
             req == [limit |-> pages[i], offset |-> page_offset]
             next == NextLink(total, pages[i], page_offset)
             more == [acc EXCEPT !.reqs = Append(@, req),
                                 !.got = Append(@, Results(total, pages[i], page_offset)),
                                 !.nullAt = IF @ = 0 /\ next = "None" THEN i ELSE @]
         IN  IF failAt = i
             THEN [acc EXCEPT !.reqs = Append(@, req), !.how = "RequestFailed"]
             ELSE IF IsNullString(next) THEN more
                  ELSE RequestLoop(pages, i + 1, offset, total, failAt, more)

\* returnlist = [] * len(items) is the empty list, so the first assignment
\* returnlist[i] = ... (returnlist[-i] under '-date') raises IndexError; with
\* no item the loop body never runs and the empty list is returned
Prealloc(n) == 0
BuildIndex(ordering, i) == IF ordering = "-date" THEN 0 - i ELSE i
InRange(x, len) == x >= 0 - len /\ x < len
Build(ordering, got) ==
    IF Items(got) = 0 THEN "returned"
    ELSE IF InRange(BuildIndex(ordering, 0), Prealloc(Items(got)))
         THEN "returned" ELSE "IndexError"

\* what __init__ of a Portfolio stores
PortfolioDict == {"account"}

Orderings == {"None", "date", "-date"}
\* items the provider holds: none, one, a page and one more, more than any
\* call asks for
Totals == {0, 1, PageSize + 1, MaxLimit + MaxOffset + 1}

NoPages ==
    [op |-> "none", ordering |-> "None", limit |-> 0, offset |-> 0, total |-> 0,
     pages |-> <<>>, reqs |-> <<>>, got |-> <<>>, nullAt |-> 0, out |-> <<>>,
     how |-> "none"]

Init ==
    /\ debug = FALSE
    /\ freq \in Freqs
    /\ subscribed = <<>>
    /\ cache = [o \in Objs |-> FALSE]
    /\ worker = NoWorker
    /\ dying = 0
    /\ leaked = 0
    /\ now = ClockStart
    /\ ret = [op |-> "none", how |-> "none", io |-> FALSE]
    /\ obs = NoObs
    /\ pg = NoPages
    /\ txn = NoTransaction
    /\ order = NoOrder
    /\ acct = NoAccount
    /\ inst = NoInstrument
    /\ thr = NoThreads
    /\ trace = NoTrace

\* ------------------------------------------------- the caller's operations
\* how a call ended: by one of the exceptions of Raises, or by a return
\* ("present": line 110; "appended", "started": the end of subscribe;
\* "returned": the end of unsubscribe); io: it issued an HTTP request
Ret(op, how, io) == [op |-> op, how |-> how, io |-> io]
Raises == {"AssertionError", "RequestFailed", "AttributeError", "NameError"}

\* f"... '{instrument.title}'" under debug: Instrument.__getattr__ runs only
\* when title is not in __dict__, and then issues one _request
TitleFetchUnder(dbg, i) == dbg /\ ~cache[i]
TitleFetch(i) == TitleFetchUnder(debug, i)

\* WebSocket.subscribe(instrument); ok: the outcome of the title _request.
\* self._ws_process = Process(...) drops the reference to the earlier Process,
\* which goes on running if it has not exited.
Subscribe(i) ==
    IF i = None
    THEN /\ ret' = Ret("subscribe", "AssertionError", FALSE)
         /\ UNCHANGED <<debug, freq, subscribed, cache, worker, dying, leaked, now, obs, trace, thr, inst, acct, order, txn, pg>>
    ELSE IF Contains(subscribed, i)
    THEN /\ ret' = Ret("subscribe", "present", FALSE)
         /\ UNCHANGED <<debug, freq, subscribed, cache, worker, dying, leaked, now, obs, trace, thr, inst, acct, order, txn, pg>>
    ELSE \E ok \in BOOLEAN :
         LET reg == Append(subscribed, i)
             raised == TitleFetch(i) /\ ~ok
             start == ~raised /\ Len(reg) = 1
         IN  /\ subscribed' = reg
             /\ cache' = IF TitleFetch(i) /\ ok THEN [cache EXCEPT ![i] = TRUE] ELSE cache
             /\ IF start
                THEN /\ worker' = NewWorker(reg)
                     /\ dying' = IF worker.status = "terminating" THEN dying + 1 ELSE dying
                     /\ leaked' = IF worker.status = "alive" THEN leaked + 1 ELSE leaked
                     /\ dying' + leaked' <= MaxOrphans
                ELSE UNCHANGED <<worker, dying, leaked, obs>>
             /\ ret' = Ret("subscribe",
                           IF raised THEN "RequestFailed"
                           ELSE IF start THEN "started" ELSE "appended",
                           TitleFetch(i))
             /\ UNCHANGED <<debug, freq, now, obs, trace, thr, inst, acct, order, txn, pg>>

\* Process.terminate(): SIGTERM is sent to a process that has not exited yet;
\* the call does not wait for the process to die
Terminate(p) ==
    IF p.status = "alive" THEN [p EXCEPT !.status = "terminating"] ELSE p

\* The end of unsubscribe(i) for an instrument, as the value dbg of debug and
\* the outcome ok of the title request decide it: whether line 143 is reached
\* with an empty Registry (stop), and what the caller gets.  Line 147 prints
\* debug_str, which is bound only under debug.
UnsubscribeEnd(dbg, i, ok) ==
    LET raised == TitleFetchUnder(dbg, i) /\ ~ok
        stop == ~raised /\ Len(Remove(subscribed, i)) = 0
        noattr == stop /\ worker.status = "none"
    IN  [stop |-> stop /\ ~noattr,
         ret |-> Ret("unsubscribe",
                     IF raised THEN "RequestFailed"
                     ELSE IF noattr THEN "AttributeError"
                     ELSE IF ~dbg THEN "NameError"
                     ELSE "returned",
                     TitleFetchUnder(dbg, i))]

\* WebSocket.unsubscribe(instrument); ok: the outcome of the title _request
Unsubscribe(i) ==
    IF i = None
    THEN /\ ret' = Ret("unsubscribe", "AssertionError", FALSE)
         /\ UNCHANGED <<debug, freq, subscribed, cache, worker, dying, leaked, now, obs, trace, thr, inst, acct, order, txn, pg>>
    ELSE \E ok \in BOOLEAN :
         LET end == UnsubscribeEnd(debug, i, ok)
         IN  /\ subscribed' = Remove(subscribed, i)
             /\ cache' = IF TitleFetch(i) /\ ok THEN [cache EXCEPT ![i] = TRUE] ELSE cache
             /\ worker' = IF end.stop THEN Terminate(worker) ELSE worker
             /\ ret' = end.ret
             /\ UNCHANGED <<debug, freq, dying, leaked, now, obs, trace, thr, inst, acct, order, txn, pg>>

\* WebSocket.__del__, run by del ws: terminate() on a Process that is_alive();
\* the AttributeError of an object that never had a _ws_process is swallowed
\* by except Exception: pass.  Nothing waits for the process to exit.
Dispose ==
    /\ ret.op # "del"
    /\ worker' = IF IsAlive THEN Terminate(worker) ELSE worker
    /\ ret' = Ret("del", "returned", FALSE)
    /\ UNCHANGED <<debug, freq, subscribed, cache, dying, leaked, now, obs, trace, thr, inst, acct, order, txn, pg>>

\* lemon_markets.debug = b
SetDebug(b) ==
    /\ debug # b
    /\ debug' = b
    /\ UNCHANGED <<freq, subscribed, cache, worker, dying, leaked, now, ret, obs, trace, thr, inst, acct, order, txn, pg>>

\* time() moves on
Tick ==
    /\ now < ClockEnd
    /\ now' = now + 1
    /\ UNCHANGED <<debug, freq, subscribed, cache, worker, dying, leaked, ret, obs, trace, thr, inst, acct, order, txn, pg>>

\* ------------------------------------------------ _ws_worker, step by step
\* Every step is taken by a process that has not exited; a process with a
\* pending SIGTERM may still take steps until the signal is delivered.

\* ws = create_connection(...) succeeds
WorkerConnect ==
    /\ IsAlive /\ worker.pc \in {"connect", "reconnect"}
    /\ worker' = [worker EXCEPT !.pc = "send", !.sent = <<>>]
    /\ UNCHANGED <<debug, freq, subscribed, cache, dying, leaked, now, ret, obs, trace, thr, inst, acct, order, txn, pg>>

\* create_connection raises: it is outside every try, _ws_worker is left and
\* the process exits
WorkerConnectFail ==
    /\ IsAlive /\ worker.pc \in {"connect", "reconnect"}
    /\ worker' = DeadWorker
    /\ UNCHANGED <<debug, freq, subscribed, cache, dying, leaked, now, ret, obs, trace, thr, inst, acct, order, txn, pg>>

\* for each in self.subscribed: ws.send(... each.isin); after the last one
\* the receive loop is entered
WorkerSend ==
    /\ IsAlive /\ worker.pc = "send"
    /\ LET k == Len(worker.sent) + 1
       IN  IF k <= Len(worker.snap)
           THEN worker' = [worker EXCEPT
                    !.sent = Append(@, IsinOf(worker.snap[k])),
                    !.pc = IF k = Len(worker.snap) THEN "recv" ELSE "send"]
           ELSE worker' = [worker EXCEPT !.pc = "recv"]
    /\ UNCHANGED <<debug, freq, subscribed, cache, dying, leaked, now, ret, obs, trace, thr, inst, acct, order, txn, pg>>

\* ws.send raises: outside every try as well, the process exits
WorkerSendFail ==
    /\ IsAlive /\ worker.pc = "send"
    /\ Len(worker.sent) < Len(worker.snap)
    /\ worker' = DeadWorker
    /\ UNCHANGED <<debug, freq, subscribed, cache, dying, leaked, now, ret, obs, trace, thr, inst, acct, order, txn, pg>>

\* response = eval(ws.recv()) delivers a trade of ISIN m; the throttle decides
\* whether self.callback is entered
WorkerRecv(m) ==
    /\ IsAlive /\ worker.pc = "recv"
    /\ m \in {worker.sent[k] : k \in 1 .. Len(worker.sent)}
    /\ IF ThrottlePass(now, worker.last, freq)
       THEN worker' = [worker EXCEPT !.pc = "callback"]
       ELSE worker' = worker
    /\ UNCHANGED <<debug, freq, subscribed, cache, dying, leaked, now, ret, thr, inst, acct, order, txn, pg>>

\* ws.recv() raises (timeout, disconnect): except Exception: break; ws.close()
WorkerRecvFail ==
    /\ IsAlive /\ worker.pc = "recv"
    /\ worker' = [worker EXCEPT !.pc = "reconnect", !.sent = <<>>]
    /\ UNCHANGED <<debug, freq, subscribed, cache, dying, leaked, now, ret, obs, trace, thr, inst, acct, order, txn, pg>>

WorkerCallbackReturnAgain ==
    /\ IsAlive /\ worker.pc = "callback"
    /\ worker' = [worker EXCEPT !.last = now]
    /\ UNCHANGED <<debug, freq, subscribed, cache, dying, leaked, now, ret, thr, inst, acct, order, txn, pg>>

\* self.callback(...) returns: self._last_message_time = time()
WorkerCallbackReturn ==
    /\ IsAlive /\ worker.pc = "callback"
    /\ worker' = [worker EXCEPT !.pc = "recv", !.last = now]
    /\ UNCHANGED <<debug, freq, subscribed, cache, dying, leaked, now, ret, thr, inst, acct, order, txn, pg>>

\* self.callback(...) raises: the ValueError raised in its place is caught by
\* the enclosing except Exception: break; ws.close()
WorkerCallbackRaise ==
    /\ IsAlive /\ worker.pc = "callback"
    /\ worker' = [worker EXCEPT !.pc = "reconnect", !.sent = <<>>]
    /\ UNCHANGED <<debug, freq, subscribed, cache, dying, leaked, now, ret, thr, inst, acct, order, txn, pg>>

\* the SIGTERM sent by terminate() is delivered: the process is gone
WorkerExit ==
    /\ worker.status = "terminating"
    /\ worker' = DeadWorker
    /\ UNCHANGED <<debug, freq, subscribed, cache, dying, leaked, now, ret, obs, trace, thr, inst, acct, order, txn, pg>>

\* the same for an earlier process
OrphanExit ==
    /\ dying > 0
    /\ dying' = dying - 1
    /\ UNCHANGED <<debug, freq, subscribed, cache, worker, leaked, now, ret, obs, trace, thr, inst, acct, order, txn, pg>>

Msgs == {IsinOf(o) : o \in Objs}

\* The program with debug at its default, False.
Next ==
    \/ \E i \in Objs \cup {None} : Subscribe(i)
    \/ \E i \in Objs \cup {None} : Unsubscribe(i)
    \/ Tick
    \/ WorkerConnect
    \/ WorkerConnectFail
    \/ WorkerSend
    \/ WorkerSendFail
    \/ WorkerRecvFail
    \/ WorkerExit
    \/ OrphanExit
    \/ \E m \in Msgs : WorkerRecv(m) /\ UNCHANGED <<obs, trace>>
    \/ WorkerCallbackReturn /\ UNCHANGED <<obs, trace>>
    \/ WorkerCallbackRaise /\ UNCHANGED <<obs, trace>>

Spec == Init /\ [][Next]_vars

\* The program with the debug flag set either way, at any time, and the
\* frequency limit at its default.
InitDebug ==
    /\ debug \in BOOLEAN
    /\ freq = 0
    /\ subscribed = <<>>
    /\ cache = [o \in Objs |-> FALSE]
    /\ worker = NoWorker
    /\ dying = 0
    /\ leaked = 0
    /\ now = ClockStart
    /\ ret = [op |-> "none", how |-> "none", io |-> FALSE]
    /\ obs = NoObs
    /\ pg = NoPages
    /\ txn = NoTransaction
    /\ order = NoOrder
    /\ acct = NoAccount
    /\ inst = NoInstrument
    /\ thr = NoThreads
    /\ trace = NoTrace

NextDebug ==
    \/ \E b \in BOOLEAN : SetDebug(b)
    \/ \E i \in Objs \cup {None} : Subscribe(i)
    \/ \E i \in Objs \cup {None} : Unsubscribe(i)
    \/ Tick
    \/ WorkerConnect
    \/ WorkerConnectFail
    \/ WorkerSend
    \/ WorkerSendFail
    \/ WorkerRecvFail
    \/ WorkerExit
    \/ OrphanExit
    \/ \E m \in Msgs : WorkerRecv(m) /\ UNCHANGED <<obs, trace>>
    \/ WorkerCallbackReturn /\ UNCHANGED <<obs, trace>>
    \/ WorkerCallbackRaise /\ UNCHANGED <<obs, trace>>

SpecDebug == InitDebug /\ [][NextDebug]_vars

\* The program of Spec with the callback's view recorded in obs.
NextObs ==
    \/ \E i \in Objs \cup {None} : Subscribe(i)
    \/ \E i \in Objs \cup {None} : Unsubscribe(i)
    \/ Tick
    \/ WorkerConnect
    \/ WorkerConnectFail
    \/ WorkerSend
    \/ WorkerSendFail
    \/ WorkerRecvFail
    \/ WorkerExit
    \/ OrphanExit
    \/ \E m \in Msgs :
         /\ WorkerRecv(m)
         /\ obs' = IF ThrottlePass(now, worker.last, freq)
                   THEN [fate |-> "dispatched", inv |-> now, prev |-> obs.inv]
                   ELSE [obs EXCEPT !.fate = "dropped"]
         /\ UNCHANGED trace
    \/ WorkerCallbackReturn /\ obs' = [obs EXCEPT !.fate = "returned"] /\ UNCHANGED trace
    \/ WorkerCallbackRaise /\ obs' = [obs EXCEPT !.fate = "raised"] /\ UNCHANGED trace

SpecObs == Init /\ [][NextObs]_vars

\* The program of Spec with the received messages numbered and every entry of
\* the callback logged in trace.
NextSeq ==
    \/ \E i \in Objs \cup {None} : Subscribe(i)
    \/ \E i \in Objs \cup {None} : Unsubscribe(i)
    \/ Tick
    \/ WorkerConnect
    \/ WorkerConnectFail
    \/ WorkerSend
    \/ WorkerSendFail
    \/ WorkerRecvFail
    \/ WorkerExit
    \/ OrphanExit
    \/ \E m \in Msgs :
         /\ trace.n < MaxMsgs
         /\ WorkerRecv(m)
         /\ trace' = Observe(trace, TRUE, worker'.pc = "callback")
         /\ UNCHANGED obs
    \/ /\ WorkerCallbackReturn
       /\ trace' = Observe(trace, FALSE, worker'.pc = "callback")
       /\ UNCHANGED obs
    \/ /\ WorkerCallbackRaise
       /\ trace' = Observe(trace, FALSE, worker'.pc = "callback")
       /\ UNCHANGED obs

SpecSeq == Init /\ [][NextSeq]_vars

\* The program of Spec up to and beyond del ws: no method is called on a
\* disposed object, its worker processes go on as long as they live.
NextDel ==
    \/ Dispose
    \/ \E i \in Objs \cup {None} : ret.op # "del" /\ Subscribe(i)
    \/ \E i \in Objs \cup {None} : ret.op # "del" /\ Unsubscribe(i)
    \/ Tick
    \/ WorkerConnect
    \/ WorkerConnectFail
    \/ WorkerSend
    \/ WorkerSendFail
    \/ WorkerRecvFail
    \/ WorkerExit
    \/ OrphanExit
    \/ \E m \in Msgs : WorkerRecv(m) /\ UNCHANGED <<obs, trace>>
    \/ WorkerCallbackReturn /\ UNCHANGED <<obs, trace>>
    \/ WorkerCallbackRaise /\ UNCHANGED <<obs, trace>>

SpecDel == Init /\ [][NextDel]_vars

\* ------------------------------- subscribe, line by line, in several threads
\* The interpreter may switch threads between any two lines: subscribe takes
\* no lock.  debug is False: lines 113-114 and 119-123 do nothing.

\* thread t calls ws.subscribe(i); the assert of line 108
ThreadCall(t, i) ==
    /\ thr[t].pc = "idle"
    /\ thr' = [thr EXCEPT ![t] = [pc |-> IF i = None THEN "done" ELSE "check", arg |-> i]]
    /\ UNCHANGED <<debug, freq, subscribed, cache, worker, dying, leaked, now, ret, obs, trace, inst, acct, order, txn, pg>>

\* line 109-110: if instrument in self.subscribed: return
ThreadCheck(t) ==
    /\ thr[t].pc = "check"
    /\ thr' = [thr EXCEPT ![t].pc =
                 IF Contains(subscribed, thr[t].arg) THEN "done" ELSE "append"]
    /\ UNCHANGED <<debug, freq, subscribed, cache, worker, dying, leaked, now, ret, obs, trace, inst, acct, order, txn, pg>>

\* line 111: self.subscribed.append(instrument)
ThreadAppend(t) ==
    /\ thr[t].pc = "append"
    /\ subscribed' = Append(subscribed, thr[t].arg)
    /\ thr' = [thr EXCEPT ![t].pc = "len"]
    /\ UNCHANGED <<debug, freq, cache, worker, dying, leaked, now, ret, obs, trace, inst, acct, order, txn, pg>>

\* line 116: if len(self.subscribed) == 1
ThreadLen(t) ==
    /\ thr[t].pc = "len"
    /\ thr' = [thr EXCEPT ![t].pc = IF Len(subscribed) = 1 THEN "start" ELSE "done"]
    /\ UNCHANGED <<debug, freq, subscribed, cache, worker, dying, leaked, now, ret, obs, trace, inst, acct, order, txn, pg>>

\* lines 117-118: self._ws_process = Process(...); self._ws_process.start()
ThreadStart(t) ==
    /\ thr[t].pc = "start"
    /\ worker' = NewWorker(subscribed)
    /\ dying' = IF worker.status = "terminating" THEN dying + 1 ELSE dying
    /\ leaked' = IF worker.status = "alive" THEN leaked + 1 ELSE leaked
    /\ dying' + leaked' <= MaxOrphans
    /\ thr' = [thr EXCEPT ![t].pc = "done"]
    /\ UNCHANGED <<debug, freq, subscribed, cache, now, ret, obs, trace, inst, acct, order, txn, pg>>

\* Concurrent subscribe calls on a new WebSocket object, and the worker they
\* start.
NextThreads ==
    \/ \E t \in Threads, i \in Objs \cup {None} : ThreadCall(t, i)
    \/ \E t \in Threads : ThreadCheck(t)
    \/ \E t \in Threads : ThreadAppend(t)
    \/ \E t \in Threads : ThreadLen(t)
    \/ \E t \in Threads : ThreadStart(t)
    \/ WorkerConnect
    \/ WorkerConnectFail
    \/ WorkerSend
    \/ WorkerSendFail
    \/ WorkerRecvFail
    \/ \E m \in Msgs : WorkerRecv(m) /\ UNCHANGED <<obs, trace>>
    \/ WorkerCallbackReturn /\ UNCHANGED <<obs, trace>>
    \/ WorkerCallbackRaise /\ UNCHANGED <<obs, trace>>

SpecThreads == Init /\ [][NextThreads]_vars

\* ------------------------------------------- Instrument, attribute by attribute
wsvars == <<debug, freq, subscribed, cache, worker, dying, leaked, now, ret, obs, trace, thr>>

\* Instrument(j, ...) with the descriptive arguments of the set given
InstrumentNew(j, given) ==
    /\ inst' = [isin |-> j, desc |-> InstrumentInit(j, given), n |-> 0, was |-> Absent,
                last |-> Access("new", "none", Absent, 0, None, "returned")]
    /\ UNCHANGED <<wsvars, acct, order, txn, pg>>

InstrumentGetattrRetries(name, ok) ==
    /\ inst.isin # None
    /\ IF name = "isin"
       THEN inst' = [inst EXCEPT !.last =
                        Access("get", name, [by |-> "attr", isin |-> inst.isin], 0, None, "returned")]
       ELSE IF name \in Fields /\ inst.desc[name] # Absent
       THEN inst' = [inst EXCEPT !.last =
                        Access("get", name, inst.desc[name], 0, None, "returned")]
       ELSE IF name \notin Fields
       THEN inst' = [inst EXCEPT !.last =
                        Access("get", name, Absent, 0, None, "AttributeError")]
       ELSE IF ~ok
       THEN /\ inst.n < MaxFetches
            /\ inst' = [inst EXCEPT !.n = @ + 1, !.last =
                        Access("get", name, Absent, 2, inst.isin, "RequestFailed")]
       ELSE LET d == GetattrStore(inst.desc, inst.isin)
            IN  /\ inst.n < MaxFetches
                /\ inst' = [inst EXCEPT !.desc = d, !.n = @ + 1, !.last =
                        Access("get", name, d[name], 1, inst.isin,
                               IF d[name] = Absent THEN "KeyError" ELSE "returned")]
    /\ UNCHANGED <<wsvars, acct, order, txn, pg>>

\* instrument.<name>: an attribute found in __dict__ is returned by the normal
\* lookup; only otherwise __getattr__ runs: AttributeError for a name it does
\* not recognize, else one _request, which raises or stores the four keys
InstrumentGetattr(name, ok) ==
    /\ inst.isin # None
    /\ IF name = "isin"
       THEN inst' = [inst EXCEPT !.last =
                        Access("get", name, [by |-> "attr", isin |-> inst.isin], 0, None, "returned")]
       ELSE IF name \in Fields /\ inst.desc[name] # Absent
       THEN inst' = [inst EXCEPT !.last =
                        Access("get", name, inst.desc[name], 0, None, "returned")]
       ELSE IF name \notin Fields
       THEN inst' = [inst EXCEPT !.last =
                        Access("get", name, Absent, 0, None, "AttributeError")]
       ELSE IF ~ok
       THEN /\ inst.n < MaxFetches
            /\ inst' = [inst EXCEPT !.n = @ + 1, !.last =
                        Access("get", name, Absent, 1, inst.isin, "RequestFailed")]
       ELSE LET d == GetattrStore(inst.desc, inst.isin)
            IN  /\ inst.n < MaxFetches
                /\ inst' = [inst EXCEPT !.desc = d, !.n = @ + 1, !.last =
                        Access("get", name, d[name], 1, inst.isin,
                               IF d[name] = Absent THEN "KeyError" ELSE "returned")]
    /\ UNCHANGED <<wsvars, acct, order, txn, pg>>

\* instrument.<key> = j: only isin can be assigned, every other key is ignored
InstrumentSetattr(key, j) ==
    /\ inst.isin # None
    /\ IF key = "isin"
       THEN inst' = [inst EXCEPT !.isin = j, !.desc = SetattrClear(inst.desc),
                                 !.was = inst.desc["title"],
                                 !.last = Access("set", key, Absent, 0, None, "returned")]
       ELSE inst' = [inst EXCEPT !.last = Access("set", key, Absent, 0, None, "returned")]
    /\ UNCHANGED <<wsvars, acct, order, txn, pg>>

\* what the application reads and assigns
GetNames == Fields \cup {"isin", "name"}
SetKeys == {"isin", "title"}

NextInstrument ==
    \/ \E j \in AllIsins, given \in SUBSET Fields : InstrumentNew(j, given)
    \/ \E name \in GetNames, ok \in BOOLEAN : InstrumentGetattr(name, ok)
    \/ \E key \in SetKeys, j \in AllIsins : InstrumentSetattr(key, j)

SpecInstrument == Init /\ [][NextInstrument]_vars

\* ---------------------------------------------- Account, attribute by attribute
\* Account(u, token): __init__ stores uuid and token and issues the request
\* for the account's data itself (lines 179-181); when the request raises, no
\* object is constructed and the application keeps the one it had
AccountNew(u, v, ok) ==
    /\ acct.n < MaxFetches
    /\ IF ok
       THEN acct' = [uuid |-> u, desc |-> AccountStore(u, v), n |-> acct.n + 1,
                    last |-> Access("new", "none", AccountAbsent, 1, u, "returned")]
       ELSE acct' = [acct EXCEPT !.n = @ + 1, !.last =
                        Access("new", "none", AccountAbsent, 1, u, "RequestFailed")]
    /\ UNCHANGED <<wsvars, inst, order, txn, pg>>

\* account.<name>: an attribute found in __dict__ is returned by the normal
\* lookup; only otherwise __getattr__ runs
AccountGetattr(name, v, ok) ==
    /\ acct.uuid # None
    /\ IF name \in {"uuid", "token"}
       THEN acct' = [acct EXCEPT !.last =
                        Access("get", name, [by |-> "attr", uuid |-> acct.uuid, ver |-> None],
                               0, None, "returned")]
       ELSE IF name \in AccountFields /\ acct.desc[name] # AccountAbsent
       THEN acct' = [acct EXCEPT !.last =
                        Access("get", name, acct.desc[name], 0, None, "returned")]
       ELSE IF name \notin AccountFields
       THEN acct' = [acct EXCEPT !.last =
                        Access("get", name, AccountAbsent, 0, None, "AttributeError")]
       ELSE /\ acct.n < MaxFetches
            /\ IF ok
               THEN acct' = [acct EXCEPT !.desc = AccountStore(acct.uuid, v), !.n = @ + 1,
                        !.last = Access("get", name, AccountFetched(acct.uuid, v), 1,
                                        acct.uuid, "returned")]
               ELSE acct' = [acct EXCEPT !.n = @ + 1, !.last =
                        Access("get", name, AccountAbsent, 1, acct.uuid, "RequestFailed")]
    /\ UNCHANGED <<wsvars, inst, order, txn, pg>>

\* account.<key> = value: __setattr__ changes nothing
AccountSetattr(key) ==
    /\ acct.uuid # None
    /\ acct' = [acct EXCEPT !.last = Access("set", key, AccountAbsent, 0, None, "returned")]
    /\ UNCHANGED <<wsvars, inst, order, txn, pg>>

\* what the application reads and assigns
AccountGetNames == AccountFields \cup {"uuid", "token", "account"}
AccountSetKeys == {"uuid", "name"}

NextAccount ==
    \/ \E u \in Uuids, v \in Versions, ok \in BOOLEAN : AccountNew(u, v, ok)
    \/ \E name \in AccountGetNames, v \in Versions, ok \in BOOLEAN : AccountGetattr(name, v, ok)
    \/ \E key \in AccountSetKeys : AccountSetattr(key)

SpecAccount == Init /\ [][NextAccount]_vars

\* ------------------------------------------------ Order, attribute by attribute
\* Order(id, account, ...) for an order that has type t on the server
OrderNew(id, t, given) ==
    /\ order' = [id |-> id, t |-> t, d |-> OrderInit(given), n |-> 0,
                 last |-> Access("new", "none", Missing, 0, None, "returned")]
    /\ UNCHANGED <<wsvars, inst, acct, txn, pg>>

\* order.<name>: an attribute found in __dict__ is returned by the normal
\* lookup; only otherwise __getattr__ runs: AttributeError for a name it does
\* not recognize, else one _request, lines 921-935, and
\* return self.__dict__[name], a KeyError when the key is still missing
OrderGetattr(name, v, ok) ==
    /\ order.id # None
    /\ IF name \in {"id", "account"}
       THEN order' = [order EXCEPT !.last =
                        Access("get", name, Passed(name), 0, None, "returned")]
       ELSE IF name \in OrderKeys /\ order.d[name] # Missing
       THEN order' = [order EXCEPT !.last =
                        Access("get", name, order.d[name], 0, None, "returned")]
       ELSE IF name \notin OrderFields
       THEN order' = [order EXCEPT !.last =
                        Access("get", name, Missing, 0, None, "AttributeError")]
       ELSE /\ order.n < MaxFetches
            /\ IF ok
               THEN LET d == OrderStore(order.d, order.t, v)
                    IN  order' = [order EXCEPT !.d = d, !.n = @ + 1, !.last =
                            Access("get", name, d[name], 1, order.id,
                                   IF d[name] = Missing THEN "KeyError" ELSE "returned")]
               ELSE order' = [order EXCEPT !.n = @ + 1, !.last =
                            Access("get", name, Missing, 1, order.id, "RequestFailed")]
    /\ UNCHANGED <<wsvars, inst, acct, txn, pg>>

OrderSetattrStores(key) ==
    /\ order.id # None
    /\ order' = [order EXCEPT !.d[key] = Passed(key),
                              !.last = Access("set", key, Missing, 0, None, "returned")]
    /\ UNCHANGED <<wsvars, inst, acct, txn, pg>>

\* order.<key> = value: __setattr__ changes nothing
OrderSetattr(key) ==
    /\ order.id # None
    /\ order' = [order EXCEPT !.last = Access("set", key, Missing, 0, None, "returned")]
    /\ UNCHANGED <<wsvars, inst, acct, txn, pg>>

\* what the application reads, assigns and passes to __init__
OrderGetNames == OrderKeys \cup {"id", "account", "isin"}
OrderSetKeys == {"quantity"}
OrderArgs == {{}, {"core"}, {"core", "limit_price"}, {"core", "stop_price"},
              {"core", "limit_price", "stop_price"}}

NextOrder ==
    \/ \E id \in OrderIds, t \in OrderTypes, given \in OrderArgs : OrderNew(id, t, given)
    \/ \E name \in OrderGetNames, v \in Versions, ok \in BOOLEAN : OrderGetattr(name, v, ok)
    \/ \E key \in OrderSetKeys : OrderSetattr(key)

SpecOrder == Init /\ [][NextOrder]_vars

\* ------------------------------------------ Transaction, attribute by attribute
\* Transaction(id, account, ...) with the owning Account of uuid u
TransactionNew(id, u, given) ==
    /\ txn' = [id |-> id, acc |-> u, d |-> TransactionInit(given), n |-> 0,
               last |-> Access("new", "none", Missing, 0, None, "returned")]
    /\ UNCHANGED <<wsvars, inst, acct, order, pg>>

\* transaction.<name>: an attribute found in __dict__ is returned by the
\* normal lookup; only otherwise __getattr__ runs: AttributeError for a name
\* it does not recognize; else the URL of the request is formatted from
\* self.account.isin (line 788), an attribute an Account does not have, and
\* the AttributeError of Account.__getattr__ leaves __getattr__ before
\* _request is called
TransactionGetattr(name, v, ok) ==
    /\ txn.id # None
    /\ IF name \in {"id", "account"}
       THEN txn' = [txn EXCEPT !.last =
                        Access("get", name, Passed(name), 0, None, "returned")]
       ELSE IF name \in TransactionKeys /\ txn.d[name] # Missing
       THEN txn' = [txn EXCEPT !.last =
                        Access("get", name, txn.d[name], 0, None, "returned")]
       ELSE IF name \notin TransactionFields
       THEN txn' = [txn EXCEPT !.last =
                        Access("get", name, Missing, 0, None, "AttributeError")]
       ELSE IF "isin" \notin AccountDict
       THEN txn' = [txn EXCEPT !.last =
                        Access("get", name, Missing, 0, None, "AttributeError")]
       ELSE /\ txn.n < MaxFetches
            /\ IF ok
               THEN LET d == TransactionStore(v)
                    IN  txn' = [txn EXCEPT !.d = d, !.n = @ + 1, !.last =
                            IF name \in TransactionKeys
                            THEN Access("get", name, d[name], 1, txn.id, "returned")
                            ELSE Access("get", name, Missing, 1, txn.id, "KeyError")]
               ELSE txn' = [txn EXCEPT !.n = @ + 1, !.last =
                            Access("get", name, Missing, 1, txn.id, "RequestFailed")]
    /\ UNCHANGED <<wsvars, inst, acct, order, pg>>

\* transaction.<key> = value: __setattr__ changes nothing
TransactionSetattr(key) ==
    /\ txn.id # None
    /\ txn' = [txn EXCEPT !.last = Access("set", key, Missing, 0, None, "returned")]
    /\ UNCHANGED <<wsvars, inst, acct, order, pg>>

\* what the application reads and assigns
TransactionGetNames == TransactionFields \cup TransactionKeys \cup {"id", "account", "isin"}
TransactionSetKeys == {"id", "amount"}

NextTransaction ==
    \/ \E id \in TransactionIds, u \in Uuids, given \in BOOLEAN : TransactionNew(id, u, given)
    \/ \E name \in TransactionGetNames, v \in Versions, ok \in BOOLEAN :
            TransactionGetattr(name, v, ok)
    \/ \E key \in TransactionSetKeys : TransactionSetattr(key)

SpecTransaction == Init /\ [][NextTransaction]_vars

\* ------------------------------------------------- the four entity classes
\* The entity objects share no state: a run follows the application through
\* the objects of one class.
OnlyInstrument == acct = NoAccount /\ order = NoOrder /\ txn = NoTransaction
OnlyAccount == inst = NoInstrument /\ order = NoOrder /\ txn = NoTransaction
OnlyOrder == inst = NoInstrument /\ acct = NoAccount /\ txn = NoTransaction
OnlyTransaction == inst = NoInstrument /\ acct = NoAccount /\ order = NoOrder

NextEntity ==
    \/ \E j \in AllIsins, given \in SUBSET Fields : OnlyInstrument /\ InstrumentNew(j, given)
    \/ \E name \in GetNames, ok \in BOOLEAN : OnlyInstrument /\ InstrumentGetattr(name, ok)
    \/ \E key \in SetKeys, j \in AllIsins : OnlyInstrument /\ InstrumentSetattr(key, j)
    \/ \E u \in Uuids, v \in Versions, ok \in BOOLEAN : OnlyAccount /\ AccountNew(u, v, ok)
    \/ \E name \in AccountGetNames, v \in Versions, ok \in BOOLEAN :
            OnlyAccount /\ AccountGetattr(name, v, ok)
    \/ \E key \in AccountSetKeys : OnlyAccount /\ AccountSetattr(key)
    \/ \E id \in OrderIds, t \in OrderTypes, given \in OrderArgs :
            OnlyOrder /\ OrderNew(id, t, given)
    \/ \E name \in OrderGetNames, v \in Versions, ok \in BOOLEAN :
            OnlyOrder /\ OrderGetattr(name, v, ok)
    \/ \E key \in OrderSetKeys : OnlyOrder /\ OrderSetattr(key)
    \/ \E id \in TransactionIds, u \in Uuids, given \in BOOLEAN :
            OnlyTransaction /\ TransactionNew(id, u, given)
    \/ \E name \in TransactionGetNames, v \in Versions, ok \in BOOLEAN :
            OnlyTransaction /\ TransactionGetattr(name, v, ok)
    \/ \E key \in TransactionSetKeys : OnlyTransaction /\ TransactionSetattr(key)

SpecEntity == Init /\ [][NextEntity]_vars

\* ------------------------------------------------- Account.create_order
\* The arguments of a call: side, quantity, limit_price and stop_price are
\* given or left None; instrument is None, an Instrument built from its ISIN
\* alone ("bare") or one with its descriptive attributes ("full"); order_type
\* is None ("None") or a string.  valid_until is never None at line 254: left
\* out, it is time() (lines 251-252).
CreateOrderTypes == {"None", "other"} \cup OrderTypes
Instruments == {"None", "bare", "full"}
OrderArguments ==
    [side : BOOLEAN, instrument : Instruments, quantity : BOOLEAN,
     limit_price : BOOLEAN, stop_price : BOOLEAN]

\* lines 254-260: the two asserts and the two raise AssertionError
ValidArgumentsNoStop(a, order_type) ==
    /\ a.side /\ a.instrument # "None" /\ a.quantity /\ order_type # "None"
    /\ order_type \in OrderTypes
    /\ ~(~a.limit_price /\ HasLimit(order_type))
ValidArguments(a, order_type) ==
    /\ a.side /\ a.instrument # "None" /\ a.quantity /\ order_type # "None"
    /\ order_type \in OrderTypes
    /\ ~(~a.limit_price /\ HasLimit(order_type))
    /\ ~(~a.stop_price /\ HasStop(order_type))

\* how a call of create_order ends and how many requests it issues:
\* the POST (line 262), under debug the requests of str(instrument) for an
\* Instrument that lacks its descriptive attributes (lines 276-278, 724-727),
\* and then self.account of line 279, which Account.__getattr__ does not
\* recognize
CreateOrderOutcome(dbg, a, order_type, ok, okPrint) ==
    IF ~ValidArguments(a, order_type) THEN [how |-> "AssertionError", fetched |-> 0]
    ELSE IF ~ok THEN [how |-> "RequestFailed", fetched |-> 1]
    ELSE LET prints == dbg /\ a.instrument = "bare"
             sent == IF prints THEN 2 ELSE 1
         IN  IF prints /\ ~okPrint THEN [how |-> "RequestFailed", fetched |-> sent]
             ELSE IF "account" \notin AccountDict
                  THEN [how |-> "AttributeError", fetched |-> sent]
                  ELSE [how |-> "returned", fetched |-> sent]

\* account.create_order(...); id: the uuid of the response
CreateOrder(a, order_type, id, ok, okPrint) ==
    /\ acct.uuid # None
    /\ LET r == CreateOrderOutcome(debug, a, order_type, ok, okPrint)
       IN  /\ acct' = [acct EXCEPT !.n = @ + r.fetched,
                                   !.last = Access("create_order", order_type, a,
                                                   r.fetched, acct.uuid, r.how)]
           /\ order' = IF r.how = "returned"
                       THEN [id |-> id, t |-> order_type, d |-> OrderInit({}), n |-> 0,
                             last |-> Access("new", "none", Missing, 0, None, "returned")]
                       ELSE order
    /\ UNCHANGED <<wsvars, inst, txn, pg>>

\* lemon_markets.debug = b, between two calls on an Account
AccountSetDebug(b) ==
    /\ debug # b
    /\ debug' = b
    /\ UNCHANGED <<freq, subscribed, cache, worker, dying, leaked, now, ret, obs, trace, thr,
                   inst, acct, order, txn, pg>>

\* an Account on which create_order has not been called since it was made
Fresh == acct.uuid # None /\ acct.last.op # "create_order"

NextCreateOrder ==
    \/ \E u \in Uuids, v \in Versions, ok \in BOOLEAN : AccountNew(u, v, ok)
    \/ Fresh /\ \E a \in OrderArguments, order_type \in CreateOrderTypes, id \in OrderIds,
           ok \in BOOLEAN, okPrint \in BOOLEAN :
            CreateOrder(a, order_type, id, ok, okPrint)
    \/ \E b \in BOOLEAN : AccountSetDebug(b)

SpecCreateOrder == Init /\ [][NextCreateOrder]_vars

\* ------------------------------------------------------------- _request
\* the statuses of a response, from 100 Continue on
Statuses == 100 .. MaxStatus

\* lines 1117-1123: status_msg starts empty and each of the three ifs that
\* applies overwrites it
StatusMsgFirst(status) ==
    IF status > 299 THEN "redirect"
    ELSE IF status > 399 THEN "bad client"
    ELSE IF status > 499 THEN "server error" ELSE ""
StatusMsg(status) ==
    LET m1 == IF status > 299 THEN "redirect" ELSE ""
        m2 == IF status > 399 THEN "bad client" ELSE m1
    IN  IF status > 499 THEN "server error" ELSE m2

\* _request(method, url, fields, headers) answered with status: the body,
\* which is JSON, parsed and returned, or AssertionError with the status and
\* status_msg in its text
Request(status) ==
    /\ ret' = [op |-> "_request", io |-> TRUE, status |-> status,
               how |-> IF status > 199 /\ status < 300 THEN "returned"
                       ELSE "AssertionError",
               msg |-> IF status > 199 /\ status < 300 THEN "" ELSE StatusMsg(status)]
    /\ UNCHANGED <<debug, freq, subscribed, cache, worker, dying, leaked, now, obs, trace, thr,
                   inst, acct, order, txn, pg>>

NextRequest == \E status \in Statuses : Request(status)

SpecRequest == Init /\ [][NextRequest]_vars

\* ------------------------------------------------- paginated operations
entvars == <<inst, acct, order, txn>>
NoRequests == [reqs |-> <<>>, got |-> <<>>, nullAt |-> 0, how |-> "running"]

\* the page loop and the list built from its results, for the two operations
\* of REST
Paginated(op, ordering, limit, offset, total, failAt) ==
    LET pages == Partition(limit, PageSize)
        r == RequestLoop(pages, 1, offset, total, failAt, NoRequests)
    IN  [op |-> op, ordering |-> ordering, limit |-> limit, offset |-> offset,
         total |-> total, pages |-> pages, reqs |-> r.reqs, got |-> r.got,
         nullAt |-> r.nullAt, out |-> <<>>,
         how |-> IF r.how = "RequestFailed" THEN r.how ELSE Build(ordering, r.got)]

\* REST().list_instruments(limit=limit, offset=offset)
ListInstruments(limit, offset, total, failAt) ==
    /\ pg.op = "none"
    /\ pg' = Paginated("list_instruments", "None", limit, offset, total, failAt)
    /\ UNCHANGED <<wsvars, entvars>>

\* REST().get_m1_candlesticks(instrument, ordering, limit=limit, offset=offset)
GetM1Candlesticks(ordering, limit, offset, total, failAt) ==
    /\ pg.op = "none"
    /\ pg' = Paginated("get_m1_candlesticks", ordering, limit, offset, total, failAt)
    /\ UNCHANGED <<wsvars, entvars>>

\* Portfolio(account).get_seperated(limit, offset): the first iteration of
\* the loop reads self._auth_header before it calls _request
GetSeperated(limit, offset) ==
    /\ pg.op = "none"
    /\ LET pages == Partition(limit, PortfolioPageSize)
       IN  pg' = [NoPages EXCEPT !.op = "get_seperated", !.limit = limit,
                                 !.offset = offset, !.pages = pages,
                                 !.how = IF pages = <<>> THEN Build("None", <<>>)
                                         ELSE IF "_auth_header" \in PortfolioDict
                                              THEN "running"
                                              ELSE "AttributeError"]
    /\ UNCHANGED <<wsvars, entvars>>

Limits == 0 .. MaxLimit
Offsets == 0 .. MaxOffset
FailAts == 0 .. MaxFailAt

\* no paginated call has been made
NoCall == pg.op = "none"

NextPages ==
    \/ NoCall /\ \E limit \in Limits, offset \in Offsets, total \in Totals,
                    failAt \in FailAts :
            ListInstruments(limit, offset, total, failAt)
    \/ NoCall /\ \E ordering \in Orderings, limit \in Limits, offset \in Offsets,
                    total \in Totals, failAt \in FailAts :
            GetM1Candlesticks(ordering, limit, offset, total, failAt)
    \/ NoCall /\ \E limit \in Limits, offset \in Offsets : GetSeperated(limit, offset)

SpecPages == Init /\ [][NextPages]_vars

\* ================================================================ claims
InRegistry(i) == \E k \in 1 .. Len(subscribed) : subscribed[k] = i
Count(list, i) == Cardinality({k \in 1 .. Len(list) : list[k] = i})
\* a process runs _ws_worker and terminate() has not been called on it
WorkerLive == worker.status = "alive" \/ leaked > 0

\* C1: between any two steps a live background worker exists if and only if
\* the Registry is non-empty.
C1_WorkerIffRegistry == WorkerLive <=> subscribed # <<>>

\* C2: on every connection the worker has sent one directive per instrument it
\* iterates over, and on a reconnect those are the instruments of the caller's
\* Registry at that moment.
C2_ReconnectResubscribesRegistry ==
    /\ [](worker.pc \in {"recv", "callback"}
            => worker.sent = [k \in 1 .. Len(worker.snap) |-> IsinOf(worker.snap[k])])
    /\ [][(worker.status = "alive" /\ worker.pc = "reconnect" /\ WorkerConnect)
            => Isins(worker'.snap) = Isins(subscribed)]_vars

\* C3: a socket failure on connect, send or receive leaves the worker alive,
\* with its subscriptions, about to connect again, and the caller's latest
\* call result untouched.
C3_TransportFailureReconnects ==
    [][(WorkerConnectFail \/ WorkerSendFail \/ WorkerRecvFail)
        => /\ worker'.status = worker.status
           /\ worker'.pc \in {"connect", "reconnect"}
           /\ worker'.snap = worker.snap
           /\ ret' = ret]_vars

\* C4: when the callback raises, the worker is back in the receive loop on the
\* same connection: no reconnect.
C4_CallbackFailureKeepsConnection ==
    [][WorkerCallbackRaise
        => (worker'.pc = "recv" /\ worker'.sent = worker.sent)]_vars

\* C5: any two consecutive callback invocations are at least freq apart.
C5_InvocationsAtLeastFApart ==
    (obs.prev # 0 /\ obs.inv # 0) => obs.inv - obs.prev >= freq

\* C6: with frequency limit 0 no received message is dropped.
C6_NoLimitDispatchesAll == freq = 0 => obs.fate # "dropped"

\* C7: subscribe of an instrument that is in the Registry changes neither the
\* Registry nor the worker nor the earlier processes and returns; no
\* instrument is ever in the Registry twice.
C7_SubscribeIdempotent ==
    /\ [](\A i \in Objs : Count(subscribed, i) <= 1)
    /\ [][\A i \in Objs : (InRegistry(i) /\ Subscribe(i))
            => /\ subscribed' = subscribed
               /\ worker' = worker
               /\ dying' = dying /\ leaked' = leaked
               /\ ret'.how = "present"]_vars

\* a subscribe of a present instrument has returned, with a worker running
C7_Witness ==
    /\ ret.op = "subscribe" /\ ret.how = "present"
    /\ Len(subscribed) >= 1
    /\ worker.status = "alive"

\* C8: the Registry holds at most one entry per ISIN.
C8_NoDuplicateIsins ==
    \A j, k \in 1 .. Len(subscribed) :
        j # k => IsinOf(subscribed[j]) # IsinOf(subscribed[k])

\* C9: unsubscribe of an instrument that is not in the Registry returns without
\* raising and leaves the Registry and the worker as they were.
C9_UnsubscribeAbsentIsNoop ==
    [][\A i \in Objs : (~InRegistry(i) /\ Unsubscribe(i))
        => /\ ret'.how \notin Raises
           /\ subscribed' = subscribed
           /\ worker' = worker]_vars

\* C10: the unsubscribe that empties the Registry leaves no worker running
\* that has not at least been sent its termination.
C10_LastUnsubscribeStopsWorker ==
    [][\A i \in Objs : (subscribed # <<>> /\ Unsubscribe(i) /\ subscribed' = <<>>)
        => ~WorkerLive']_vars

\* C11: the callback is entered at most once per received message and in the
\* order of reception: the numbers of the dispatched messages are strictly
\* increasing, whatever was dropped in between.
C11_DispatchOncePerMessageInOrder ==
    /\ \A k \in 1 .. Len(trace.log) : trace.log[k] \in 1 .. trace.n
    /\ \A j, k \in 1 .. Len(trace.log) : j < k => trace.log[j] < trace.log[k]

\* two messages were dispatched with a dropped one between them
C11_Witness ==
    /\ Len(trace.log) >= 2
    /\ \E k \in 1 .. Len(trace.log) - 1 : trace.log[k + 1] > trace.log[k] + 1

\* C12: of the worker processes started for one WebSocket object at most one
\* is running without its termination having been requested, and so at most
\* one connection is open.
C12_AtMostOneWorker ==
    (IF worker.status = "alive" THEN 1 ELSE 0) + leaked <= 1

\* C13: once del ws is over, no worker process of the object is running and
\* no connection is open.
C13_DisposeStopsWorker ==
    ret.op = "del" => (~IsAlive /\ dying = 0 /\ leaked = 0)

\* C14: when concurrent subscribe calls on a new object are all over, the
\* Registry holds each subscribed instrument once and nothing else, and a
\* worker has been started if anything was subscribed.
C14_ConcurrentSubscribeSerializes ==
    (\A t \in Threads : thr[t].pc = "done")
        => /\ \A i \in Objs : Count(subscribed, i) <= 1
           /\ {subscribed[k] : k \in 1 .. Len(subscribed)}
                = {thr[t].arg : t \in Threads} \ {None}
           /\ subscribed # <<>> => worker.status # "none"
           /\ leaked = 0

\* C15: no subscribe or unsubscribe call issues an HTTP request.
C15_NoCallerIO ==
    ret.op \in {"subscribe", "unsubscribe"} => ~ret.io

\* every descriptive attribute is in __dict__
Hydrated(i) == \A f \in Fields : i.desc[f] # Absent

\* C16: a read of a descriptive attribute of an Instrument that lacks them
\* issues exactly one request, and when it returns all four are cached; a read
\* on an Instrument that has them, by construction or by an earlier read,
\* issues none and leaves them as they are; no attribute is ever cached
\* without the three others.
C16_InstrumentHydratesOnce ==
    /\ [](Hydrated(inst) \/ \A f \in Fields : inst.desc[f] = Absent)
    /\ [][\A f \in Fields, ok \in BOOLEAN : InstrumentGetattr(f, ok)
            => /\ Hydrated(inst) => (inst'.last.fetched = 0 /\ inst'.desc = inst.desc
                                       /\ inst'.last.how = "returned")
               /\ ~Hydrated(inst) => (inst'.last.fetched = 1
                                       /\ inst'.last.how \in {"returned", "RequestFailed"}
                                       /\ (inst'.last.how = "returned" => Hydrated(inst')))]_vars

\* a read that issued no request has returned a value cached by the one
\* request the object has issued
C16_Witness ==
    /\ inst.last.op = "get" /\ inst.last.field \in Fields
    /\ inst.last.fetched = 0 /\ inst.last.val.by = "fetch"
    /\ inst.n = 1

\* C17: assigning isin stores the new ISIN and leaves no descriptive attribute
\* cached; a descriptive attribute that is cached always belongs to the
\* current ISIN; the read after an assignment issues one request, for the
\* current ISIN, and returns that response's value.
C17_ReassignedIsinRefetches ==
    /\ [](\A f \in Fields : inst.desc[f] # Absent => inst.desc[f].isin = inst.isin)
    /\ [][\A j \in AllIsins : InstrumentSetattr("isin", j)
            => (inst'.isin = j /\ \A f \in Fields : inst'.desc[f] = Absent)]_vars
    /\ [][\A f \in Fields, ok \in BOOLEAN :
            (inst.last.op = "set" /\ inst.last.field = "isin" /\ InstrumentGetattr(f, ok))
            => /\ inst'.last.fetched = 1
               /\ inst'.last.url = inst.isin
               /\ inst'.last.how = "returned" => inst'.last.val = FromFetch(inst.isin)]_vars

\* a read has returned the value fetched for an ISIN that was assigned to an
\* Instrument that had the attributes of another ISIN cached
C17_Witness ==
    /\ inst.was # Absent /\ inst.was.isin # inst.isin
    /\ inst.last.op = "get" /\ inst.last.field \in Fields
    /\ inst.last.fetched = 1 /\ inst.last.how = "returned"
    /\ inst.last.val = FromFetch(inst.isin)

\* C18: constructing an Account issues no request and caches nothing; the
\* first read of name, type or currency issues one request.
C18_AccountHydratesLazily ==
    /\ acct.last.op = "new" => acct.last.fetched = 0
    /\ (acct.last.op = "new" /\ acct.last.how = "returned")
            => \A f \in AccountFields : acct.desc[f] = AccountAbsent

\* C19: for an Order constructed from id and account, a read of a recognized
\* field before anything is cached issues one request and, unless the request
\* fails, returns with the whole group cached; a read of a recognized field
\* after that issues no request and returns.
C19_OrderHydratesOnce ==
    [][\A name \in OrderFields, v \in Versions, ok \in BOOLEAN :
        OrderGetattr(name, v, ok)
        => /\ order.d["quantity"] = Missing
                => /\ order'.last.fetched = 1
                   /\ order'.last.how \in {"returned", "RequestFailed"}
                   /\ order'.last.how = "returned"
                        => \A k \in OrderFields : order'.d[k] # Missing
           /\ order.d["quantity"].kind = "response"
                => (order'.last.fetched = 0 /\ order'.last.how = "returned")]_vars

\* C20: a read of limit_price or stop_price on an Order hydrated from a
\* response returns; limit_price is the response's limit price for the types
\* limit and stop_limit and None otherwise, stop_price is the response's stop
\* price for the types stop_market and stop_limit and None otherwise.
C20_PricesFollowType ==
    (/\ order.last.op = "get" /\ order.last.how # "RequestFailed"
     /\ order.d["type"].kind = "response")
        => /\ order.last.field = "limit_price"
                => /\ order.last.how = "returned"
                   /\ order.last.val =
                        IF order.t \in {"limit", "stop_limit"}
                        THEN Resp(order.d["type"].ver, "limit_price") ELSE PyNone
           /\ order.last.field = "stop_price"
                => /\ order.last.how = "returned"
                   /\ order.last.val =
                        IF order.t \in {"stop_market", "stop_limit"}
                        THEN Resp(order.d["type"].ver, "stop_price") ELSE PyNone

\* C21: a read of name, amount, order_volume, instrument or time on a
\* Transaction that has none of them cached issues one request for that
\* transaction and, unless the request fails, returns the response's value
\* with the whole group cached.
C21_TransactionHydratesOnce ==
    [][\A name \in {"name", "amount", "order_volume", "instrument", "time"},
          v \in Versions, ok \in BOOLEAN :
        (txn.d[name] = Missing /\ TransactionGetattr(name, v, ok))
        => /\ txn'.last.fetched = 1
           /\ txn'.last.url = txn.id
           /\ txn'.last.how \in {"returned", "RequestFailed"}
           /\ txn'.last.how = "returned"
                => /\ txn'.last.val = Resp(v, name)
                   /\ \A k \in TransactionKeys : txn'.d[k] # Missing]_vars

\* none or all of the keys are in the dict
AllOrNone(d, keys, missing) ==
    (\A k \in keys : d[k] = missing) \/ (\A k \in keys : d[k] # missing)

\* C22: whenever a read has returned or raised, an Instrument, an Order and a
\* Transaction have none or all of the fields of their group cached.
C22_HydrationAllOrNothing ==
    /\ AllOrNone(inst.desc, Fields, Absent)
    /\ AllOrNone(order.d, OrderFields, Missing)
    /\ AllOrNone(txn.d, TransactionKeys, Missing)

\* C23: a read whose request fails raises the request failure after that one
\* request, with the ISIN and the cache as they were; the read after it issues
\* a request again.
C23_FailedFetchLeavesCache ==
    /\ [][\A f \in Fields :
            (~Hydrated(inst) /\ InstrumentGetattr(f, FALSE))
            => /\ inst'.last.how = "RequestFailed"
               /\ inst'.last.fetched = 1
               /\ inst'.desc = inst.desc /\ inst'.isin = inst.isin]_vars
    /\ [][\A f \in Fields, ok \in BOOLEAN :
            (inst.last.how = "RequestFailed" /\ InstrumentGetattr(f, ok))
            => (inst'.last.fetched = 1 /\ inst'.last.url = inst.isin)]_vars

\* a read has returned the value of the second request of an Instrument whose
\* first request failed
C23_Witness ==
    /\ inst.last.op = "get" /\ inst.last.how = "returned"
    /\ inst.last.fetched = 1 /\ inst.n = 2 /\ inst.was = Absent
    /\ Hydrated(inst)

\* a read of a name that is neither in the list __getattr__ recognizes nor an
\* identity attribute has ended in AttributeError without a request
UnknownRaises(last, known) ==
    (last.op = "get" /\ last.field \notin known)
        => (last.how = "AttributeError" /\ last.fetched = 0)

\* C24: on an Instrument, an Account, an Order and a Transaction, in every
\* hydration state, a read of a name outside the recognized set raises
\* AttributeError and issues no request.
C24_UnknownAttributeRaises ==
    /\ UnknownRaises(inst.last, Fields \cup {"isin"})
    /\ UnknownRaises(acct.last, AccountFields \cup {"uuid", "token"})
    /\ UnknownRaises(order.last, OrderFields \cup {"id", "account"})
    /\ UnknownRaises(txn.last, TransactionFields \cup {"id", "account"})

\* an assignment has returned without a request and left the entity's
\* identity, cache and request count as they were
Untouched(e, f, ids) ==
    /\ f.last.op = "set" /\ f.last.how = "returned" /\ f.last.fetched = 0
    /\ \A k \in ids \cup {"n"} : f[k] = e[k]

\* C25: assigning any attribute of an Account, an Order or a Transaction, or
\* any attribute other than isin of an Instrument, raises nothing, issues no
\* request and leaves every identity and cached field unchanged.
C25_SetattrChangesNothing ==
    /\ [][\A key \in AccountSetKeys : AccountSetattr(key)
            => Untouched(acct, acct', {"uuid", "desc"})]_vars
    /\ [][\A key \in OrderSetKeys : OrderSetattr(key)
            => Untouched(order, order', {"id", "t", "d"})]_vars
    /\ [][\A key \in TransactionSetKeys : TransactionSetattr(key)
            => Untouched(txn, txn', {"id", "acc", "d"})]_vars
    /\ [][\A key \in SetKeys \ {"isin"}, j \in AllIsins : InstrumentSetattr(key, j)
            => Untouched(inst, inst', {"isin", "desc", "was"})]_vars

\* a hydrated Order has been assigned its quantity
C25_Witness ==
    /\ order.last.op = "set" /\ order.last.field = "quantity"
    /\ order.d["quantity"].kind = "response" /\ order.n = 1

RestOps == {"list_instruments", "get_m1_candlesticks"}

RECURSIVE SumSeq(_)
SumSeq(q) == IF q = <<>> THEN 0 ELSE Head(q) + SumSeq(Tail(q))

\* page i of the list has min(remaining, P) items and the sizes sum to limit
PartitionOf(pages, limit, P) ==
    /\ \A i \in 1 .. Len(pages) : pages[i] = Min(limit - (i - 1) * P, P)
    /\ SumSeq(pages) = limit

\* request i (from 0) asked for the size of page i at offset + i * P
RequestsFollow(reqs, pages, offset, P) ==
    /\ Len(reqs) <= Len(pages)
    /\ \A i \in 1 .. Len(reqs) :
          reqs[i] = [limit |-> pages[i], offset |-> offset + (i - 1) * P]

\* no request failed and no page before the last one had a null 'next'
RanThrough(p) == p.how # "RequestFailed" /\ p.nullAt \in {0, Len(p.pages)}

\* C26: for list_instruments and get_m1_candlesticks and every limit >= 0 and
\* offset >= 0 the page sizes are min(remaining, 1000) in turn and sum to
\* limit, request i is issued with that size at offset + i * 1000, limit 0
\* issues no request, and limit 2500 at offset 0 issues sizes 1000, 1000, 500
\* at offsets 0, 1000, 2000.
C26_PagesPartitionLimit ==
    pg.op \in RestOps =>
        /\ PartitionOf(pg.pages, pg.limit, 1000)
        /\ RequestsFollow(pg.reqs, pg.pages, pg.offset, 1000)
        /\ RanThrough(pg) => Len(pg.reqs) = Len(pg.pages)
        /\ pg.limit = 0 => pg.reqs = <<>>
        /\ (pg.limit = 2500 /\ pg.offset = 0 /\ RanThrough(pg))
             => pg.reqs = <<[limit |-> 1000, offset |-> 0],
                            [limit |-> 1000, offset |-> 1000],
                            [limit |-> 500, offset |-> 2000]>>

\* list_instruments(limit=2500) has issued its three requests
C26_Witness ==
    /\ pg.op = "list_instruments" /\ pg.limit = 2500 /\ pg.offset = 0
    /\ RanThrough(pg) /\ Len(pg.reqs) = 3 /\ pg.reqs[3].offset = 2000

\* C27: for Portfolio.get_seperated the page sizes are min(remaining, 200) in
\* turn and request i is issued with that size at offset + i * 200, so the
\* pages neither overlap nor leave a gap.
C27_PortfolioPagesPartitionLimit ==
    pg.op = "get_seperated" =>
        /\ PartitionOf(pg.pages, pg.limit, 200)
        /\ RequestsFollow(pg.reqs, pg.pages, pg.offset, 200)
        /\ RanThrough(pg) => Len(pg.reqs) = Len(pg.pages)

\* the pages that hold an item
NonEmpty(got) == SelectSeq(got, LAMBDA r : r.hi > r.lo)

\* the call returned one entity per item the provider sent, page after page
\* and in the provider's order within a page
OnePerItem(p) == p.how = "returned" /\ p.out = NonEmpty(p.got)

\* C28: a paginated list operation whose page requests all succeed returns
\* exactly one entity per provider result item, page i before page i + 1 and
\* in provider order within a page.
C28_OneEntityPerItem ==
    (pg.op # "none" /\ pg.how # "RequestFailed") => OnePerItem(pg)

\* Under ordering '-date' the provider lists the newest item first, so the
\* timestamps of a list decrease exactly when its items keep the provider's
\* positions in increasing order.
Decreasing(out) ==
    \A i, j \in 1 .. Len(out) : i < j => (out[i].lo < out[i].hi /\ out[i].hi <= out[j].lo)

\* C29: get_m1_candlesticks with ordering '-date' returns one candle per
\* item with monotonically decreasing timestamps.
C29_CandlesNewestFirst ==
    (pg.op = "get_m1_candlesticks" /\ pg.ordering = "-date" /\ pg.how # "RequestFailed")
        => (OnePerItem(pg) /\ Decreasing(pg.out))

\* C30: once a page's 'next' is JSON null, no request for a later page is
\* issued.
C30_StopsAtNullNext ==
    pg.nullAt # 0 => Len(pg.reqs) <= pg.nullAt

\* the argument sets create_order must reject: a required argument missing,
\* an unknown order type, a limit-family type without limit_price, a
\* stop-family type without stop_price
Rejected(a, order_type) ==
    \/ ~a.side \/ a.instrument = "None" \/ ~a.quantity \/ order_type = "None"
    \/ order_type \notin {"market", "stop_market", "limit", "stop_limit"}
    \/ (order_type \in {"limit", "stop_limit"} /\ ~a.limit_price)
    \/ (order_type \in {"stop_market", "stop_limit"} /\ ~a.stop_price)

\* C31: create_order called with a missing side, instrument, quantity or
\* order_type, an unknown order_type, a limit-family type without limit_price
\* or a stop-family type without stop_price fails with the invalid-argument
\* error and has sent no request.
C31_InvalidOrderRejectedUnsent ==
    (acct.last.op = "create_order" /\ Rejected(acct.last.val, acct.last.field))
        => (acct.last.how = "AssertionError" /\ acct.last.fetched = 0)

\* a stop order without stop_price, all else given, has been rejected
C31_Witness ==
    /\ acct.last.op = "create_order" /\ acct.last.field = "stop_market"
    /\ acct.last.val.side /\ acct.last.val.quantity /\ acct.last.val.instrument = "full"
    /\ ~acct.last.val.stop_price
    /\ acct.last.how = "AssertionError" /\ acct.last.fetched = 0

\* C32: create_order called with valid arguments whose order request
\* succeeds does not raise after the order has been placed; it returns an
\* Order whose id is the uuid of the response.
C32_CreateOrderReturnsOrder ==
    [][\A a \in OrderArguments, t \in OrderTypes, id \in OrderIds, okPrint \in BOOLEAN :
         (~Rejected(a, t) /\ CreateOrder(a, t, id, TRUE, okPrint)
            /\ ~(debug /\ a.instrument = "bare" /\ ~okPrint))
         => (acct'.last.how = "returned" /\ order'.id = id)]_vars

\* C33: a response with a status in 200-299 makes _request return the parsed
\* body; every other status makes it raise, the failure named redirect for
\* 300-399, client error for 400-499 and server error for 500-599.
C33_StatusClassDecidesOutcome ==
    ret.op = "_request" =>
        /\ (ret.how = "returned") = (ret.status \in 200 .. 299)
        /\ ret.status \notin 200 .. 299 => ret.how = "AssertionError"
        /\ ret.status \in 300 .. 399 => ret.msg = "redirect"
        /\ ret.status \in 400 .. 499 => ret.msg = "bad client"
        /\ ret.status \in 500 .. 599 => ret.msg = "server error"

\* a request answered 404 has raised as a client error
C33_Witness ==
    /\ ret.op = "_request" /\ ret.status = 404
    /\ ret.how = "AssertionError" /\ ret.msg = "bad client"

\* C34: a call made under one value of debug ends as it would have ended
\* under the other value: for unsubscribe, the same return or the same
\* error, the same requests issued, and the worker stopped or left running
\* alike.
C34_DebugOnlyLogs ==
    [][\A i \in Objs : Unsubscribe(i)
         => \E ok \in BOOLEAN :
              /\ ret' = UnsubscribeEnd(~debug, i, ok).ret
              /\ worker' = IF UnsubscribeEnd(~debug, i, ok).stop
                            THEN Terminate(worker) ELSE worker]_vars

\* C35: an unsubscribe that leaves other instruments subscribed leaves the
\* worker running, and a connection the worker opens while that unsubscribe
\* is the caller's latest call is one on which it sends directives only for
\* instruments still in the Registry: none for the one removed.
C35_UnsubscribedNotResubscribed ==
    /\ [][\A i \in Objs : (Unsubscribe(i) /\ subscribed' # <<>>) => worker' = worker]_vars
    /\ [][(ret.op = "unsubscribe" /\ subscribed # <<>> /\ worker.status = "alive"
             /\ WorkerConnect)
            => Isins(worker'.snap) \subseteq Isins(subscribed)]_vars

\* the keys of d that hold a value, and whether a response has been stored
CachedKeys(d) == {k \in DOMAIN d : d[k] # Missing}
FetchedSome(d) == \E k \in DOMAIN d : d[k].kind = "response"

\* a read of one of the names has not ended in a missing attribute or key
Readable(last, names) ==
    (last.op = "get" /\ last.field \in names) => last.how \notin {"AttributeError", "KeyError"}

\* C36: for Order and Transaction, once a hydration has succeeded the keys
\* that hold a value are exactly the recognized names, and a read of a
\* recognized name, of a key hydration stores or of a documented attribute
\* never ends in a missing attribute or a missing key, hydrated or not.
C36_RecognizedIsCached ==
    /\ FetchedSome(order.d) => CachedKeys(order.d) = OrderFields
    /\ FetchedSome(txn.d) => CachedKeys(txn.d) = TransactionFields
    /\ Readable(order.last, OrderFields \cup DOMAIN order.d)
    /\ Readable(txn.last, TransactionFields \cup DOMAIN txn.d)

====
